---- MODULE Spec2Model ----
(***************************************************************************)
(* Model of pdf_comparer.py: the PDFComparer class (capability probing,    *)
(* the per-method comparators, comprehensive_compare and its summary),     *)
(* the command line entry point main, and the text comparison pipeline     *)
(* (page extraction, join, splitlines, difflib.unified_diff, the re-parse  *)
(* of the diff in _extract_detailed_positions and _find_page_for_line).    *)
(***************************************************************************)
EXTENDS Integers, Sequences, FiniteSets, TLC

(***************************************************************************)
(* Bounds                                                                  *)
(***************************************************************************)
MaxMethods == 2      \* longest explicit methods list a caller passes
MaxPages == 2        \* most pages of a document
MaxPageLen == 2      \* most characters of a page text
MaxChars == 3        \* most characters of two documents together; of each, when equal
MaxKeys == 2         \* most keys of a metadata dictionary

(***************************************************************************)
(* Names                                                                   *)
(***************************************************************************)
TEXT == "text_comparison"
VISUAL == "visual_comparison"
STRUCTURE == "structure_analysis"
METADATA == "metadata_comparison"
BASIC == "basic_info"

\* keys of the capabilities dict, in insertion order
MethodOrder == <<TEXT, VISUAL, STRUCTURE, METADATA>>

Methods == {MethodOrder[i] : i \in 1..Len(MethodOrder)}

ResultKeys == Methods \cup {BASIC}

\* argparse choices of -m/--methods
Choices == {"text", "visual", "structure", "metadata"}

method_map ==
    [c \in Choices |->
        CASE c = "text" -> TEXT
          [] c = "visual" -> VISUAL
          [] c = "structure" -> STRUCTURE
          [] c = "metadata" -> METADATA]

SeqsUpTo(S, n) == UNION {[1..k -> S] : k \in 0..n}

InSeq(x, s) == \E i \in 1..Len(s) : s[i] = x

(***************************************************************************)
(* State                                                                   *)
(***************************************************************************)
VARIABLES
    HAS_PYMUPDF,      \* module flag: import fitz succeeded
    HAS_PDF2IMAGE,    \* module flag: import pdf2image / numpy succeeded
    HAS_PDFPLUMBER,   \* module flag: import pdfplumber succeeded
    poppler,          \* how the pdftoppm probe ended: "unprobed", "ok", "timeout", "missing"
    capabilities,     \* self.capabilities
    caller,           \* "none", "main" (command line) or "api" (direct call)
    methodsArg,       \* the methods argument: [none |-> BOOLEAN, list |-> sequence]
    pc,               \* position of the control flow
    backend,          \* what the file system and the backends answered so far
    methods_used,     \* results['methods_used']
    results,          \* results['results']
    report,           \* the value comprehensive_compare returned
    calls,            \* comparators invoked, in order
    touched,          \* comparators that reached their backend
    exitCode,         \* value returned by main, -1 while there is none
    prev,             \* the report of an earlier call on the same comparer
    pages1,           \* page texts extracted from the first document
    pages2,           \* page texts extracted from the second document
    detailed,         \* the detailed argument of compare_text
    text_result,      \* what compare_text returned
    swapped_result,   \* what compare_text returned for the two documents exchanged
    handles,          \* documents opened by a comparator and not closed when it returned
    metadata1,        \* doc1.metadata: the metadata dictionary of the first document
    metadata2,        \* doc2.metadata
    hash1,            \* the digest of the bytes of the first file
    hash2,            \* the digest of the bytes of the second file
    meta_result       \* what compare_metadata returned

vars == <<HAS_PYMUPDF, HAS_PDF2IMAGE, HAS_PDFPLUMBER, poppler, capabilities,
          caller, methodsArg, pc, backend, methods_used, results, report,
          calls, touched, exitCode, prev, pages1, pages2, detailed, text_result,
          swapped_result, handles, metadata1, metadata2, hash1, hash2,
          meta_result>>

imports == <<HAS_PYMUPDF, HAS_PDF2IMAGE, HAS_PDFPLUMBER>>

textVars == <<pages1, pages2, detailed, text_result, swapped_result>>

metaVars == <<metadata1, metadata2, hash1, hash2, meta_result>>

(***************************************************************************)
(* Method results.  A result dict is described by the keys the summary     *)
(* reads: 'error' and 'identical'.                                         *)
(***************************************************************************)
NoResult == [present |-> FALSE, error |-> FALSE, hasIdentical |-> FALSE, identical |-> FALSE,
             message |-> ""]

\* {'error': '<method>失败: <exception>'}: the method failed
Failed == [present |-> TRUE, error |-> TRUE, hasIdentical |-> FALSE, identical |-> FALSE,
           message |-> "failed"]

\* {'error': '<method>不可用，需要安装...'}: the method is unavailable
Unavailable == [present |-> TRUE, error |-> TRUE, hasIdentical |-> FALSE, identical |-> FALSE,
                message |-> "unavailable"]

\* {'method': ..., 'identical': b, ...}
Ok(b) == [present |-> TRUE, error |-> FALSE, hasIdentical |-> TRUE, identical |-> b,
          message |-> ""]

\* {'method': 'visual_comparison', 'identical': False, 'error': '页数不同: ...'}
PageMismatch == [present |-> TRUE, error |-> TRUE, hasIdentical |-> TRUE, identical |-> FALSE,
                 message |-> "page_count_mismatch"]

\* {'method': 'basic_info', 'file_size': {...}, 'page_count': {...}}: no 'identical'
\* key of its own; 'page_count' is there only when HAS_PYMUPDF
BasicResult(sizes_equal, pymupdf, page_counts_equal) ==
    [present |-> TRUE, error |-> FALSE, hasIdentical |-> FALSE, identical |-> FALSE,
     message |-> "",
     file_size_identical |-> sizes_equal,
     has_page_count |-> pymupdf,
     page_count_identical |-> pymupdf /\ page_counts_equal]

\* what a comparator hands back: a result dict, or an exception that left it
Return(r) == [raised |-> FALSE, res |-> r]

Raise == [raised |-> TRUE, res |-> NoResult]

Outcomes(m) ==
    IF m = VISUAL THEN {"same", "diff", "mismatch", "raise"}
    ELSE {"same", "diff", "raise"}

(***************************************************************************)
(* Capability probing                                                      *)
(***************************************************************************)
\* variant: _check_poppler catching only the error of a missing executable
_check_poppler_timeout_uncaught(probe) ==
    IF probe = "timeout" THEN [raised |-> TRUE, res |-> FALSE]
    ELSE Return(probe = "ok")

\* _check_poppler: True when subprocess.run returned, False on any exception
\* (the bare except clause lets none through)
_check_poppler(probe) == Return(probe = "ok")

_check_capabilities(pymupdf, pdf2image, pdfplumber, probe) ==
    [m \in Methods |->
        CASE m = TEXT -> pymupdf
          [] m = VISUAL -> pdf2image /\ _check_poppler(probe).res
          [] m = STRUCTURE -> pdfplumber
          [] m = METADATA -> pymupdf]

(***************************************************************************)
(* Comparators, as functions of the capability flag and of what the        *)
(* backend does when it is reached                                         *)
(***************************************************************************)
\* variant: compare_text without its try/except
compare_text_result_uncaught(cap, outcome) ==
    IF ~cap THEN Return(Unavailable)
    ELSE IF outcome = "raise" THEN Raise
    ELSE Return(Ok(outcome = "same"))

compare_text_result(cap, outcome) ==
    IF ~cap THEN Return(Unavailable)
    ELSE IF outcome = "raise" THEN Return(Failed)
    ELSE Return(Ok(outcome = "same"))

\* variant: compare_visual reporting 'identical': False instead of an error
\* when the capability is missing
compare_visual_ungated(cap, outcome) ==
    IF ~cap THEN Return(Ok(FALSE))
    ELSE IF outcome = "raise" THEN Return(Failed)
    ELSE IF outcome = "mismatch" THEN Return(PageMismatch)
    ELSE Return(Ok(outcome = "same"))

\* variant: a page count mismatch reported as a difference, without 'error'
compare_visual_mismatch_as_difference(cap, outcome) ==
    IF ~cap THEN Return(Unavailable)
    ELSE IF outcome = "raise" THEN Return(Failed)
    ELSE Return(Ok(outcome = "same"))

compare_visual(cap, outcome) ==
    IF ~cap THEN Return(Unavailable)
    ELSE IF outcome = "raise" THEN Return(Failed)
    ELSE IF outcome = "mismatch" THEN Return(PageMismatch)
    ELSE Return(Ok(outcome = "same"))

compare_structure(cap, outcome) ==
    IF ~cap THEN Return(Unavailable)
    ELSE IF outcome = "raise" THEN Return(Failed)
    ELSE Return(Ok(outcome = "same"))

\* variant: compare_metadata without the test of its capability flag
compare_metadata_ungated(cap, outcome) ==
    IF outcome = "raise" THEN Return(Failed)
    ELSE Return(Ok(outcome = "same"))

compare_metadata(cap, outcome) ==
    IF ~cap THEN Return(Unavailable)
    ELSE IF outcome = "raise" THEN Return(Failed)
    ELSE Return(Ok(outcome = "same"))

\* outcome: "same" (equal sizes, equal page counts), "diff" (unequal sizes),
\* "pages" (equal sizes, unequal page counts), "raise" (getsize or open raised)
compare_basic_info(outcome, pymupdf) ==
    IF outcome = "raise" THEN Return(Failed)
    ELSE Return(BasicResult(outcome # "diff", pymupdf, outcome # "pages"))

Comparator(m, cap, outcome) ==
    CASE m = TEXT -> compare_text_result(cap, outcome)
      [] m = VISUAL -> compare_visual(cap, outcome)
      [] m = STRUCTURE -> compare_structure(cap, outcome)
      [] m = METADATA -> compare_metadata(cap, outcome)

(***************************************************************************)
(* The backend operations of each comparator, in program order.  "open"    *)
(* and "close" are fitz.open and doc.close(), "enter" and "exit" are the   *)
(* two ends of a with statement, "use" is any other backend call.          *)
(***************************************************************************)
Step(op, h) == [op |-> op, h |-> h]

\* _extract_text_by_page on each path, then the comparison of the texts
TextSteps ==
    <<Step("open", "doc1"), Step("use", "doc1"), Step("close", "doc1"),
      Step("open", "doc2"), Step("use", "doc2"), Step("close", "doc2"),
      Step("use", "")>>

\* convert_from_path on each path, then the comparison of the images
VisualSteps == <<Step("use", ""), Step("use", ""), Step("use", "")>>

\* with pdfplumber.open(pdf1_path) as pdf1, pdfplumber.open(pdf2_path) as pdf2
StructureSteps ==
    <<Step("enter", "pdf1"), Step("enter", "pdf2"), Step("use", "pdf1"),
      Step("exit", "pdf2"), Step("exit", "pdf1")>>

\* the two documents, the two file hashes (_calculate_hash reads the file
\* inside a with statement), the metadata, the two close calls
MetadataSteps ==
    <<Step("open", "doc1"), Step("open", "doc2"),
      Step("enter", "file1"), Step("use", "file1"), Step("exit", "file1"),
      Step("enter", "file2"), Step("use", "file2"), Step("exit", "file2"),
      Step("use", "doc1"),
      Step("close", "doc1"), Step("close", "doc2")>>

\* the two file sizes and, when HAS_PYMUPDF, the two page counts
BasicInfoSteps(pymupdf) ==
    <<Step("use", ""), Step("use", "")>>
    \o (IF pymupdf
        THEN <<Step("open", "doc1"), Step("open", "doc2"), Step("use", "doc1"),
               Step("close", "doc1"), Step("close", "doc2")>>
        ELSE <<>>)

Steps(m, pymupdf) ==
    CASE m = TEXT -> TextSteps
      [] m = VISUAL -> VisualSteps
      [] m = STRUCTURE -> StructureSteps
      [] m = METADATA -> MetadataSteps
      [] m = BASIC -> BasicInfoSteps(pymupdf)

\* where an exception can come from; 0 stands for no exception
RaisePoints(steps, outcome) ==
    IF outcome = "raise"
    THEN {i \in 1..Len(steps) : steps[i].op \in {"open", "enter", "use"}}
    ELSE {0}

\* the handles open when the comparator returns, the exception (if any)
\* being raised by step number at: a with statement releases its handle while
\* the exception unwinds, the except clause of the comparator releases nothing
RECURSIVE OpenAtReturn(_, _, _, _, _)
OpenAtReturn(steps, i, at, open, scoped) ==
    IF i > Len(steps) THEN open
    ELSE IF i = at THEN open \ scoped
    ELSE LET h == steps[i].h IN
         CASE steps[i].op = "open" -> OpenAtReturn(steps, i + 1, at, open \cup {h}, scoped)
           [] steps[i].op = "enter" ->
                 OpenAtReturn(steps, i + 1, at, open \cup {h}, scoped \cup {h})
           [] steps[i].op \in {"close", "exit"} ->
                 OpenAtReturn(steps, i + 1, at, open \ {h}, scoped \ {h})
           [] OTHER -> OpenAtReturn(steps, i + 1, at, open, scoped)

\* the handles comparator m leaves open, tagged with the comparator
LeftOpen(m, pymupdf, at) ==
    {<<m, h>> : h \in OpenAtReturn(Steps(m, pymupdf), 1, at, {}, {})}

(***************************************************************************)
(* comprehensive_compare: file check, method selection, summary            *)
(***************************************************************************)
\* variant: only the first path is checked
FileCheck_first_only(e1, e2) ==
    IF ~e1 THEN "pdf1" ELSE "ok"

FileCheck(e1, e2) ==
    IF ~e1 THEN "pdf1" ELSE IF ~e2 THEN "pdf2" ELSE "ok"

\* variant: an explicit list is filtered by availability
SelectMethods_drop_unavailable(arg, caps) ==
    IF arg.none THEN SelectSeq(MethodOrder, LAMBDA k : caps[k])
    ELSE SelectSeq(arg.list, LAMBDA k : caps[k])

\* variant: the default is every method, available or not
SelectMethods_all_by_default(arg, caps) ==
    IF arg.none THEN MethodOrder
    ELSE arg.list

SelectMethods(arg, caps) ==
    IF arg.none THEN SelectSeq(MethodOrder, LAMBDA k : caps[k])
    ELSE arg.list

\* the next `if '<method>' in methods` that holds after position i
NextStep(i, methods) ==
    IF \E k \in (i+1)..Len(MethodOrder) : InSeq(MethodOrder[k], methods)
    THEN MethodOrder[CHOOSE k \in (i+1)..Len(MethodOrder) :
                        /\ InSeq(MethodOrder[k], methods)
                        /\ \A l \in (i+1)..(k-1) : ~InSeq(MethodOrder[l], methods)]
    ELSE "summarize"

Position(m) == CHOOSE i \in 1..Len(MethodOrder) : MethodOrder[i] = m

\* variant: the test `'error' not in result` is missing
IdenticalChecks_keep_failed(res) ==
    {k \in ResultKeys : res[k].present /\ res[k].hasIdentical}

\* keys whose 'identical' value goes into identical_checks
IdenticalChecks(res) ==
    {k \in ResultKeys : res[k].present /\ ~res[k].error /\ res[k].hasIdentical}

NoSummary == [present |-> FALSE, overall_identical |-> FALSE, checks_passed |-> 0,
              checks_total |-> 0, has_errors |-> FALSE]

\* variant: all(identical_checks) without the guard for the empty list
Summary_all_of_empty(res) ==
    LET checks == IdenticalChecks(res) IN
    [present |-> TRUE,
     overall_identical |-> \A k \in checks : res[k].identical,
     checks_passed |-> Cardinality({k \in checks : res[k].identical}),
     checks_total |-> Cardinality(checks),
     has_errors |-> \E k \in ResultKeys : res[k].present /\ res[k].error]

Summary(res) ==
    LET checks == IdenticalChecks(res) IN
    [present |-> TRUE,
     overall_identical |-> IF checks # {} THEN \A k \in checks : res[k].identical ELSE FALSE,
     checks_passed |-> IF checks # {} THEN Cardinality({k \in checks : res[k].identical}) ELSE 0,
     checks_total |-> Cardinality(checks),
     has_errors |-> \E k \in ResultKeys : res[k].present /\ res[k].error]

NoReport == [kind |-> "none", error |-> "", summary |-> NoSummary]

(***************************************************************************)
(* main: method selection from the parsed arguments, exit code             *)
(***************************************************************************)
MainMethods(argMethods, argAll, caps) ==
    IF Len(argMethods) > 0
    THEN [none |-> FALSE, list |-> [i \in 1..Len(argMethods) |-> method_map[argMethods[i]]]]
    ELSE IF argAll THEN [none |-> TRUE, list |-> <<>>]
    ELSE IF caps[TEXT] THEN [none |-> FALSE, list |-> <<TEXT>>]
    ELSE [none |-> TRUE, list |-> <<>>]

\* variant: a report that is not identical is taken for an error
ExitCode_differences_as_error(rep) ==
    IF rep.kind = "error" THEN 1
    ELSE IF rep.summary.present /\ rep.summary.overall_identical THEN 0
    ELSE 1

ExitCode(rep) ==
    IF rep.kind = "error" THEN 1
    ELSE IF rep.summary.present /\ rep.summary.overall_identical THEN 0
    ELSE 2

(***************************************************************************)
(* Text comparison.  A text is a sequence of one-character strings, a line *)
(* is a text without line breaks, a document is a sequence of page texts.  *)
(* Indices are 0-based as in the source: element i of s is s[i + 1].       *)
(***************************************************************************)
LF == "\n"

CR == "\r"

Max2(x, y) == IF x >= y THEN x ELSE y

Min2(x, y) == IF x <= y THEN x ELSE y

\* a local variable: the value is computed once, where it is assigned, and
\* the statements after the assignment read it
Assigned(value, Rest(_)) == CHOOSE r \in {Rest(v) : v \in {value}} : TRUE

\* s[lo:hi] for 0 <= lo
Slice(s, lo, hi) ==
    LET h == Min2(hi, Len(s)) IN
    IF lo >= h THEN <<>> ELSE [i \in 1..(h - lo) |-> s[lo + i]]

StartsWith(s, prefix) ==
    /\ Len(s) >= Len(prefix)
    /\ \A i \in 1..Len(prefix) : s[i] = prefix[i]

RECURSIVE JoinFrom(_, _, _)
JoinFrom(pages, sep, i) ==
    IF i > Len(pages) THEN <<>>
    ELSE IF i = Len(pages) THEN pages[i]
    ELSE pages[i] \o sep \o JoinFrom(pages, sep, i + 1)

\* '\n'.join(pages)
Join(pages) == JoinFrom(pages, <<LF>>, 1)

\* str.splitlines() over the line breaks \n, \r and \r\n: a break ends the
\* current line, a last line without break is kept, no empty last line
RECURSIVE SplitFrom(_, _, _, _)
SplitFrom(t, i, cur, acc) ==
    IF i > Len(t) THEN (IF cur # <<>> THEN Append(acc, cur) ELSE acc)
    ELSE IF t[i] = CR /\ i < Len(t) /\ t[i + 1] = LF
         THEN SplitFrom(t, i + 2, <<>>, Append(acc, cur))
    ELSE IF t[i] = LF \/ t[i] = CR
         THEN SplitFrom(t, i + 1, <<>>, Append(acc, cur))
    ELSE SplitFrom(t, i + 1, Append(cur, t[i]), acc)

splitlines(t) == SplitFrom(t, 1, <<>>, <<>>)

(***************************************************************************)
(* difflib.SequenceMatcher(None, a, b) without junk (the autojunk          *)
(* heuristic needs 200 elements)                                           *)
(***************************************************************************)
\* length of the common run of a[i:ahi] and b[j:bhi]
RECURSIVE RunLen(_, _, _, _, _, _)
RunLen(a, b, i, j, ahi, bhi) ==
    IF i < ahi /\ j < bhi /\ a[i + 1] = b[j + 1]
    THEN 1 + RunLen(a, b, i + 1, j + 1, ahi, bhi)
    ELSE 0

\* the longest matching block in a[alo:ahi], b[blo:bhi]; of the longest ones
\* the one starting earliest in a, and of those the one starting earliest in b
find_longest_match(a, b, alo, ahi, blo, bhi) ==
    LET P == (alo..(ahi - 1)) \X (blo..(bhi - 1)) IN
    Assigned([p \in P |-> RunLen(a, b, p[1], p[2], ahi, bhi)], LAMBDA len :
    Assigned(IF P = {} THEN 0 ELSE len[CHOOSE q \in P : \A r \in P : len[r] <= len[q]],
             LAMBDA best :
        IF best = 0 THEN <<alo, blo, 0>>
        ELSE LET C == {p \in P : len[p] = best}
                 c == CHOOSE c \in C : \A d \in C :
                         c[1] < d[1] \/ (c[1] = d[1] /\ c[2] <= d[2])
             IN <<c[1], c[2], best>>))

RECURSIVE BlocksIn(_, _, _, _, _, _)
BlocksIn(a, b, alo, ahi, blo, bhi) ==
    Assigned(find_longest_match(a, b, alo, ahi, blo, bhi), LAMBDA m :
        LET i == m[1]
            j == m[2]
            k == m[3]
        IN  IF k = 0 THEN <<>>
            ELSE (IF alo < i /\ blo < j THEN BlocksIn(a, b, alo, i, blo, j) ELSE <<>>)
                 \o <<m>>
                 \o (IF i + k < ahi /\ j + k < bhi
                     THEN BlocksIn(a, b, i + k, ahi, j + k, bhi) ELSE <<>>))

\* adjacent blocks are merged
RECURSIVE Collapse(_, _, _)
Collapse(blocks, n, acc) ==
    IF n > Len(blocks) THEN acc
    ELSE LET m == blocks[n] IN
         IF acc # <<>> /\ acc[Len(acc)][1] + acc[Len(acc)][3] = m[1]
                       /\ acc[Len(acc)][2] + acc[Len(acc)][3] = m[2]
         THEN Collapse(blocks, n + 1,
                       [acc EXCEPT ![Len(acc)] = <<@[1], @[2], @[3] + m[3]>>])
         ELSE Collapse(blocks, n + 1, Append(acc, m))

get_matching_blocks(a, b) ==
    Assigned(BlocksIn(a, b, 0, Len(a), 0, Len(b)), LAMBDA blocks :
        Append(Collapse(blocks, 1, <<>>), <<Len(a), Len(b), 0>>))

RECURSIVE SumSizes(_, _)
SumSizes(blocks, n) ==
    IF n > Len(blocks) THEN 0 ELSE blocks[n][3] + SumSizes(blocks, n + 1)

\* variant: two empty sequences score 0.0
ratio_empty_is_zero(a, b) ==
    LET length == Len(a) + Len(b) IN
    IF length = 0 THEN [num |-> 0, den |-> 1]
    ELSE Assigned(get_matching_blocks(a, b), LAMBDA blocks :
             [num |-> 2 * SumSizes(blocks, 1), den |-> length])

\* SequenceMatcher.ratio(): 2.0 * matches / length, 1.0 when length is 0;
\* the quotient is kept as numerator and denominator
ratio(a, b) ==
    LET length == Len(a) + Len(b) IN
    IF length = 0 THEN [num |-> 1, den |-> 1]
    ELSE Assigned(get_matching_blocks(a, b), LAMBDA blocks :
             [num |-> 2 * SumSizes(blocks, 1), den |-> length])

Opcode(tag, i1, i2, j1, j2) == [tag |-> tag, i1 |-> i1, i2 |-> i2, j1 |-> j1, j2 |-> j2]

RECURSIVE OpcodesFrom(_, _, _, _)
OpcodesFrom(blocks, n, i, j) ==
    IF n > Len(blocks) THEN <<>>
    ELSE LET ai == blocks[n][1]
             bj == blocks[n][2]
             size == blocks[n][3]
             tag == IF i < ai /\ j < bj THEN "replace"
                    ELSE IF i < ai THEN "delete"
                    ELSE IF j < bj THEN "insert"
                    ELSE ""
         IN (IF tag # "" THEN <<Opcode(tag, i, ai, j, bj)>> ELSE <<>>)
            \o (IF size > 0 THEN <<Opcode("equal", ai, ai + size, bj, bj + size)>> ELSE <<>>)
            \o OpcodesFrom(blocks, n + 1, ai + size, bj + size)

get_opcodes(a, b) ==
    Assigned(get_matching_blocks(a, b), LAMBDA blocks : OpcodesFrom(blocks, 1, 0, 0))

\* default number of context lines of unified_diff
ContextLines == 3

\* the loop of get_grouped_opcodes: returns the groups yielded so far with
\* the group under construction as last element
RECURSIVE GroupLoop(_, _, _, _, _)
GroupLoop(codes, k, n, groups, group) ==
    IF k > Len(codes) THEN Append(groups, group)
    ELSE LET c == codes[k] IN
         IF c.tag = "equal" /\ c.i2 - c.i1 > n + n
         THEN GroupLoop(codes, k + 1, n,
                        Append(groups,
                               Append(group, Opcode(c.tag, c.i1, Min2(c.i2, c.i1 + n),
                                                    c.j1, Min2(c.j2, c.j1 + n)))),
                        <<Opcode(c.tag, Max2(c.i1, c.i2 - n), c.i2,
                                 Max2(c.j1, c.j2 - n), c.j2)>>)
         ELSE GroupLoop(codes, k + 1, n, groups, Append(group, c))

get_grouped_opcodes(a, b, n) ==
    Assigned(get_opcodes(a, b), LAMBDA codes0 :
    Assigned(IF codes0 = <<>> THEN <<Opcode("equal", 0, 1, 0, 1)>> ELSE codes0,
             LAMBDA codes1 :
    Assigned(LET f == codes1[1] IN
             IF f.tag = "equal"
             THEN [codes1 EXCEPT ![1] = Opcode(f.tag, Max2(f.i1, f.i2 - n), f.i2,
                                               Max2(f.j1, f.j2 - n), f.j2)]
             ELSE codes1,
             LAMBDA codes2 :
    Assigned(LET l == codes2[Len(codes2)] IN
             IF l.tag = "equal"
             THEN [codes2 EXCEPT ![Len(codes2)] =
                      Opcode(l.tag, l.i1, Min2(l.i2, l.i1 + n),
                             l.j1, Min2(l.j2, l.j1 + n))]
             ELSE codes2,
             LAMBDA codes3 :
    Assigned(GroupLoop(codes3, 1, n, <<>>, <<>>), LAMBDA all :
        LET last == all[Len(all)] IN
        IF last # <<>> /\ ~(Len(last) = 1 /\ last[1].tag = "equal")
        THEN all
        ELSE SubSeq(all, 1, Len(all) - 1))))))

(***************************************************************************)
(* difflib.unified_diff(lines1, lines2, fromfile, tofile, lineterm='')     *)
(***************************************************************************)
Digit == <<"0", "1", "2", "3", "4", "5", "6", "7", "8", "9">>

\* '{}'.format(n) for n >= 0
RECURSIVE Decimal(_)
Decimal(n) ==
    IF n < 10 THEN <<Digit[n + 1]>> ELSE Decimal(n \div 10) \o <<Digit[(n % 10) + 1]>>

_format_range_unified(start, stop) ==
    LET beginning == start + 1
        length == stop - start
    IN  IF length = 1 THEN Decimal(beginning)
        ELSE Decimal(IF length = 0 THEN beginning - 1 ELSE beginning)
             \o <<",">> \o Decimal(length)

RECURSIVE Prefixed(_, _, _, _)
Prefixed(prefix, lines, lo, hi) ==
    IF lo >= hi THEN <<>>
    ELSE <<<<prefix>> \o lines[lo + 1]>> \o Prefixed(prefix, lines, lo + 1, hi)

RECURSIVE GroupBody(_, _, _, _)
GroupBody(a, b, group, k) ==
    IF k > Len(group) THEN <<>>
    ELSE LET c == group[k] IN
         (IF c.tag = "equal" THEN Prefixed(" ", a, c.i1, c.i2)
          ELSE (IF c.tag \in {"replace", "delete"} THEN Prefixed("-", a, c.i1, c.i2) ELSE <<>>)
               \o (IF c.tag \in {"replace", "insert"} THEN Prefixed("+", b, c.j1, c.j2) ELSE <<>>))
         \o GroupBody(a, b, group, k + 1)

HunkHeader(group) ==
    <<"@", "@", " ", "-">> \o _format_range_unified(group[1].i1, group[Len(group)].i2)
    \o <<" ", "+">> \o _format_range_unified(group[1].j1, group[Len(group)].j2)
    \o <<" ", "@", "@">>

RECURSIVE Hunks(_, _, _, _)
Hunks(a, b, groups, g) ==
    IF g > Len(groups) THEN <<>>
    ELSE <<HunkHeader(groups[g])>> \o GroupBody(a, b, groups[g], 1)
         \o Hunks(a, b, groups, g + 1)

unified_diff(a, b, fromfile, tofile) ==
    Assigned(get_grouped_opcodes(a, b, ContextLines), LAMBDA groups :
        IF groups = <<>> THEN <<>>
        ELSE << <<"-", "-", "-", " ">> \o fromfile, <<"+", "+", "+", " ">> \o tofile >>
             \o Hunks(a, b, groups, 1))

(***************************************************************************)
(* compare_text and its helpers                                            *)
(***************************************************************************)
IsDigit(c) == \E d \in 1..Len(Digit) : Digit[d] = c

DigitValue(c) == (CHOOSE d \in 1..Len(Digit) : Digit[d] = c) - 1

\* (\d+) at position i (1-based): the value read and the position after it,
\* ok is FALSE when there is no digit at i
RECURSIVE ScanNumber(_, _, _, _)
ScanNumber(s, i, value, any) ==
    IF i <= Len(s) /\ IsDigit(s[i])
    THEN ScanNumber(s, i + 1, 10 * value + DigitValue(s[i]), TRUE)
    ELSE [ok |-> any, value |-> value, next |-> i]

\* (?:,(\d+))? at position i: the position after it
SkipLength(s, i) ==
    IF i <= Len(s) /\ s[i] = ","
    THEN LET n == ScanNumber(s, i + 1, 0, FALSE) IN IF n.ok THEN n.next ELSE i
    ELSE i

\* re.match(r'@@ -(\d+)(?:,(\d+))? \+(\d+)(?:,(\d+))? @@', line):
\* whether it matches, group(1) and group(3)
HunkMatch(line) ==
    Assigned(ScanNumber(line, 5, 0, FALSE), LAMBDA n1 :
    Assigned(SkipLength(line, n1.next), LAMBDA p1 :
    Assigned(ScanNumber(line, p1 + 2, 0, FALSE), LAMBDA n3 :
    Assigned(SkipLength(line, n3.next), LAMBDA p3 :
        [ok |-> /\ StartsWith(line, <<"@", "@", " ", "-">>)
                /\ n1.ok
                /\ StartsWith(Slice(line, p1 - 1, Len(line)), <<" ", "+">>)
                /\ n3.ok
                /\ StartsWith(Slice(line, p3 - 1, Len(line)), <<" ", "@", "@">>),
         group1 |-> n1.value,
         group3 |-> n3.value]))))

\* _find_page_for_line(line_num, pages): (page number, line within the page)
RECURSIVE FindPageFrom(_, _, _, _)
FindPageFrom(line_num, pages, page_idx, current_line) ==
    IF page_idx >= Len(pages) THEN <<Len(pages), 0>>
    ELSE Assigned(Len(splitlines(pages[page_idx + 1])), LAMBDA page_lines :
         IF current_line + page_lines >= line_num
         THEN <<page_idx + 1, line_num - current_line>>
         ELSE FindPageFrom(line_num, pages, page_idx + 1, current_line + page_lines))

_find_page_for_line(line_num, pages) == FindPageFrom(line_num, pages, 0, 0)

\* number of lines of context kept on each side of a difference
context_size == 2

_get_context(lines, line_num) ==
    [before |-> Slice(lines, Max2(0, line_num - context_size), line_num),
     after |-> Slice(lines, line_num + 1, Min2(Len(lines), line_num + 1 + context_size))]

Difference(type, line, current_line, lines, pages) ==
    Assigned(_find_page_for_line(current_line, pages), LAMBDA where :
        [type |-> type,
         content |-> Slice(line, 1, Len(line)),
         page |-> where[1],
         line |-> current_line + 1,
         line_in_page |-> where[2],
         file |-> IF type = "removed" THEN "pdf1" ELSE "pdf2",
         context |-> _get_context(lines, current_line)])

\* the loop of _extract_detailed_positions over diff_lines[k..]
RECURSIVE ExtractFrom(_, _, _, _, _, _, _, _)
ExtractFrom(diff_lines, k, current_line1, current_line2, lines1, lines2, pages1_, pages2_) ==
    IF k > Len(diff_lines) THEN <<>>
    ELSE LET line == diff_lines[k] IN
         IF StartsWith(line, <<"@", "@">>)
         THEN Assigned(HunkMatch(line), LAMBDA match :
              Assigned(IF match.ok THEN match.group1 - 1 ELSE current_line1, LAMBDA at1 :
              Assigned(IF match.ok THEN match.group3 - 1 ELSE current_line2, LAMBDA at2 :
                  ExtractFrom(diff_lines, k + 1, at1, at2,
                              lines1, lines2, pages1_, pages2_))))
         ELSE IF StartsWith(line, <<"-", "-", "-">>) \/ StartsWith(line, <<"+", "+", "+">>)
         THEN ExtractFrom(diff_lines, k + 1, current_line1, current_line2,
                          lines1, lines2, pages1_, pages2_)
         ELSE IF StartsWith(line, <<"-">>)
         THEN <<Difference("removed", line, current_line1, lines1, pages1_)>>
              \o ExtractFrom(diff_lines, k + 1, current_line1 + 1, current_line2,
                             lines1, lines2, pages1_, pages2_)
         ELSE IF StartsWith(line, <<"+">>)
         THEN <<Difference("added", line, current_line2, lines2, pages2_)>>
              \o ExtractFrom(diff_lines, k + 1, current_line1, current_line2 + 1,
                             lines1, lines2, pages1_, pages2_)
         ELSE ExtractFrom(diff_lines, k + 1, current_line1 + 1, current_line2 + 1,
                          lines1, lines2, pages1_, pages2_)

_extract_detailed_positions(diff_lines, lines1, lines2, pages1_, pages2_) ==
    ExtractFrom(diff_lines, 1, 0, 0, lines1, lines2, pages1_, pages2_)

\* os.path.basename of the two paths
FromFile == <<"1", ".", "p", "d", "f">>

ToFile == <<"2", ".", "p", "d", "f">>

\* number of diff lines shown when no positions are computed
PreviewLines == 20

CountLines(diff_lines, sign) ==
    Cardinality({k \in 1..Len(diff_lines) :
                    /\ StartsWith(diff_lines[k], <<sign>>)
                    /\ ~StartsWith(diff_lines[k], <<sign, sign, sign>>)})

NoTextResult ==
    [computed |-> FALSE, identical |-> FALSE, similarity |-> [num |-> 0, den |-> 1],
     statistics |-> [lines_added |-> 0, lines_removed |-> 0, total_changes |-> 0,
                     char_count1 |-> 0, char_count2 |-> 0,
                     line_count1 |-> 0, line_count2 |-> 0],
     has_detailed |-> FALSE, detailed_differences |-> <<>>, diff_preview |-> <<>>]

\* variant: compare_text with the verdict taken from the character counts of
\* the two texts instead of the texts
compare_text_identical_by_count(pages1_, pages2_, detailed_) ==
    Assigned(Join(pages1_), LAMBDA text1 :
    Assigned(Join(pages2_), LAMBDA text2 :
    Assigned(splitlines(text1), LAMBDA lines1 :
    Assigned(splitlines(text2), LAMBDA lines2 :
    Assigned(unified_diff(lines1, lines2, FromFile, ToFile), LAMBDA diff_lines :
    Assigned(CountLines(diff_lines, "+"), LAMBDA added :
    Assigned(CountLines(diff_lines, "-"), LAMBDA removed :
    LET positions == detailed_ /\ diff_lines # <<>> IN
        [computed |-> TRUE,
         identical |-> Len(text1) = Len(text2),
         similarity |-> ratio(text1, text2),
         statistics |-> [lines_added |-> added, lines_removed |-> removed,
                         total_changes |-> added + removed,
                         char_count1 |-> Len(text1), char_count2 |-> Len(text2),
                         line_count1 |-> Len(lines1), line_count2 |-> Len(lines2)],
         has_detailed |-> positions,
         detailed_differences |->
             IF positions
             THEN _extract_detailed_positions(diff_lines, lines1, lines2, pages1_, pages2_)
             ELSE <<>>,
         diff_preview |-> IF positions THEN <<>> ELSE Slice(diff_lines, 0, PreviewLines)]
    )))))))

\* compare_text, lines 107-154, once both documents have been extracted
compare_text(pages1_, pages2_, detailed_) ==
    Assigned(Join(pages1_), LAMBDA text1 :
    Assigned(Join(pages2_), LAMBDA text2 :
    Assigned(splitlines(text1), LAMBDA lines1 :
    Assigned(splitlines(text2), LAMBDA lines2 :
    Assigned(unified_diff(lines1, lines2, FromFile, ToFile), LAMBDA diff_lines :
    Assigned(CountLines(diff_lines, "+"), LAMBDA added :
    Assigned(CountLines(diff_lines, "-"), LAMBDA removed :
    LET positions == detailed_ /\ diff_lines # <<>> IN
        [computed |-> TRUE,
         identical |-> text1 = text2,
         similarity |-> ratio(text1, text2),
         statistics |-> [lines_added |-> added, lines_removed |-> removed,
                         total_changes |-> added + removed,
                         char_count1 |-> Len(text1), char_count2 |-> Len(text2),
                         line_count1 |-> Len(lines1), line_count2 |-> Len(lines2)],
         has_detailed |-> positions,
         detailed_differences |->
             IF positions
             THEN _extract_detailed_positions(diff_lines, lines1, lines2, pages1_, pages2_)
             ELSE <<>>,
         diff_preview |-> IF positions THEN <<>> ELSE Slice(diff_lines, 0, PreviewLines)]
    )))))))

(***************************************************************************)
(* Metadata comparison.  A metadata dictionary is a function from the keys *)
(* it holds to their values; a value is a string or None.                  *)
(***************************************************************************)
Str(s) == [none |-> FALSE, str |-> s]

None == [none |-> TRUE, str |-> ""]

\* dict.get(key, default)
Get(dict, key, default) == IF key \in DOMAIN dict THEN dict[key] ELSE default

NoMetadata == [key \in {} |-> None]

NoMetadataResult ==
    [computed |-> FALSE, error |-> FALSE,
     file_hash |-> [pdf1 |-> "", pdf2 |-> "", identical |-> FALSE],
     metadata |-> NoMetadata, identical |-> FALSE]

\* {'error': '元数据比较失败: <exception>'}
MetadataFailed == [NoMetadataResult EXCEPT !.error = TRUE]

\* variant: the verdict also asks for equal file hashes
compare_metadata_body_hash_in_verdict(metadata1_, metadata2_, hash1_, hash2_) ==
    Assigned(DOMAIN metadata1_ \cup DOMAIN metadata2_, LAMBDA all_keys :
    Assigned([key \in all_keys |->
                 Assigned(Get(metadata1_, key, Str("")), LAMBDA val1 :
                 Assigned(Get(metadata2_, key, Str("")), LAMBDA val2 :
                     [pdf1 |-> val1, pdf2 |-> val2, identical |-> val1 = val2]))],
             LAMBDA metadata_comparison :
        [computed |-> TRUE, error |-> FALSE,
         file_hash |-> [pdf1 |-> hash1_, pdf2 |-> hash2_, identical |-> hash1_ = hash2_],
         metadata |-> metadata_comparison,
         identical |-> /\ hash1_ = hash2_
                       /\ \A key \in DOMAIN metadata_comparison :
                             metadata_comparison[key].identical]))

\* the try block of compare_metadata, lines 376-411, once both documents are
\* open and both files have been hashed
compare_metadata_body(metadata1_, metadata2_, hash1_, hash2_) ==
    Assigned(DOMAIN metadata1_ \cup DOMAIN metadata2_, LAMBDA all_keys :
    Assigned([key \in all_keys |->
                 Assigned(Get(metadata1_, key, Str("")), LAMBDA val1 :
                 Assigned(Get(metadata2_, key, Str("")), LAMBDA val2 :
                     [pdf1 |-> val1, pdf2 |-> val2, identical |-> val1 = val2]))],
             LAMBDA metadata_comparison :
        [computed |-> TRUE, error |-> FALSE,
         file_hash |-> [pdf1 |-> hash1_, pdf2 |-> hash2_, identical |-> hash1_ = hash2_],
         metadata |-> metadata_comparison,
         identical |-> \A key \in DOMAIN metadata_comparison :
                          metadata_comparison[key].identical]))

(***************************************************************************)
(* Initial state: the module has been imported, nothing constructed        *)
(***************************************************************************)
NoBackend == [exists1 |-> "unset", exists2 |-> "unset"] @@
             [k \in ResultKeys |-> "unset"]

NoPrev == [valid |-> FALSE, methods_used |-> <<>>,
           results |-> [k \in ResultKeys |-> NoResult],
           summary |-> NoSummary, calls |-> <<>>]

Init ==
    /\ HAS_PYMUPDF \in BOOLEAN
    /\ HAS_PDF2IMAGE \in BOOLEAN
    /\ HAS_PDFPLUMBER \in BOOLEAN
    /\ poppler = "unprobed"
    /\ capabilities = [m \in Methods |-> FALSE]
    /\ caller = "none"
    /\ methodsArg = [none |-> TRUE, list |-> <<>>]
    /\ pc = "start"
    /\ backend = NoBackend
    /\ methods_used = <<>>
    /\ results = [k \in ResultKeys |-> NoResult]
    /\ report = NoReport
    /\ calls = <<>>
    /\ touched = {}
    /\ exitCode = -1
    /\ prev = NoPrev
    /\ pages1 = <<>>
    /\ pages2 = <<>>
    /\ detailed = TRUE
    /\ text_result = NoTextResult
    /\ swapped_result = NoTextResult
    /\ handles = {}
    /\ metadata1 = NoMetadata
    /\ metadata2 = NoMetadata
    /\ hash1 = ""
    /\ hash2 = ""
    /\ meta_result = NoMetadataResult

(***************************************************************************)
(* Actions                                                                 *)
(***************************************************************************)
\* PDFComparer.__init__: the probe runs only when HAS_PDF2IMAGE (short-circuit and)
Construct ==
    /\ pc = "start"
    /\ \E probe \in IF HAS_PDF2IMAGE THEN {"ok", "timeout", "missing"} ELSE {"unprobed"} :
          /\ poppler' = probe
          /\ IF HAS_PDF2IMAGE /\ _check_poppler(probe).raised
             THEN /\ pc' = "construct_raised"
                  /\ UNCHANGED capabilities
             ELSE /\ pc' = "constructed"
                  /\ capabilities' = _check_capabilities(HAS_PYMUPDF, HAS_PDF2IMAGE,
                                                         HAS_PDFPLUMBER, probe)
    /\ UNCHANGED <<imports, metaVars, handles, textVars, caller, methodsArg,
                   backend, methods_used, results, report, calls, touched,
                   exitCode, prev>>

\* main, up to the call of comprehensive_compare
MainParseArgs ==
    /\ pc = "constructed"
    /\ \E argMethods \in SeqsUpTo(Choices, MaxMethods), argAll \in BOOLEAN :
          methodsArg' = MainMethods(argMethods, argAll, capabilities)
    /\ caller' = "main"
    /\ pc' = "check_files"
    /\ UNCHANGED <<imports, metaVars, handles, textVars, poppler, capabilities,
                   backend, methods_used, results, report, calls, touched,
                   exitCode, prev>>

\* comprehensive_compare called by other code, with any methods argument
DirectCall ==
    /\ pc = "constructed"
    /\ \E none \in BOOLEAN, list \in SeqsUpTo(Methods, MaxMethods) :
          /\ none => list = <<>>
          /\ methodsArg' = [none |-> none, list |-> list]
    /\ caller' = "api"
    /\ pc' = "check_files"
    /\ UNCHANGED <<imports, metaVars, handles, textVars, poppler, capabilities,
                   backend, methods_used, results, report, calls, touched,
                   exitCode, prev>>

\* what os.path.exists answers: the files do not change between two calls
Observe(field, values) ==
    IF backend[field] = "unset" THEN values ELSE {backend[field]}

\* comprehensive_compare, lines 480-501
CheckFiles ==
    /\ pc = "check_files"
    /\ \E e1 \in Observe("exists1", {"yes", "no"}), e2 \in Observe("exists2", {"yes", "no"}) :
          /\ backend' = [backend EXCEPT !.exists1 = e1, !.exists2 = e2]
          /\ IF FileCheck(e1 = "yes", e2 = "yes") # "ok"
             THEN /\ report' = [kind |-> "error",
                                error |-> FileCheck(e1 = "yes", e2 = "yes"),
                                summary |-> NoSummary]
                  /\ pc' = "returned"
                  /\ UNCHANGED methods_used
             ELSE /\ methods_used' = SelectMethods(methodsArg, capabilities)
                  /\ pc' = "basic_info"
                  /\ UNCHANGED report
    /\ results' = [k \in ResultKeys |-> NoResult]
    /\ calls' = <<>>
    /\ touched' = {}
    /\ handles' = {}
    /\ UNCHANGED <<imports, metaVars, textVars, poppler, capabilities,
                   caller, methodsArg, exitCode, prev>>

\* storing what a comparator returned, or letting its exception through
Store(key, ret, next) ==
    IF ret.raised
    THEN /\ pc' = "raised"
         /\ UNCHANGED results
    ELSE /\ results' = [results EXCEPT ![key] = ret.res]
         /\ pc' = next

\* line 504
BasicInfo ==
    /\ pc = "basic_info"
    /\ \E o \in Observe(BASIC, {"same", "diff", "pages", "raise"}) :
       \E at \in RaisePoints(Steps(BASIC, HAS_PYMUPDF), o) :
          /\ backend' = [backend EXCEPT ![BASIC] = o]
          /\ Store(BASIC, compare_basic_info(o, HAS_PYMUPDF), NextStep(0, methods_used))
          /\ handles' = handles \cup LeftOpen(BASIC, HAS_PYMUPDF, at)
    /\ calls' = Append(calls, BASIC)
    /\ touched' = touched \cup {BASIC}
    /\ UNCHANGED <<imports, metaVars, textVars, poppler, capabilities,
                   caller, methodsArg, methods_used, report, exitCode, prev>>

\* one `if '<m>' in methods: results['results']['<m>'] = self.compare_<m>(...)`
RunMethod(m) ==
    /\ pc = m
    /\ IF capabilities[m]
       THEN /\ \E o \in Observe(m, Outcomes(m)) :
               \E at \in RaisePoints(Steps(m, HAS_PYMUPDF), o) :
                  /\ backend' = [backend EXCEPT ![m] = o]
                  /\ Store(m, Comparator(m, TRUE, o), NextStep(Position(m), methods_used))
                  /\ handles' = handles \cup LeftOpen(m, HAS_PYMUPDF, at)
            /\ touched' = touched \cup {m}
       ELSE /\ Store(m, Comparator(m, FALSE, "same"), NextStep(Position(m), methods_used))
            /\ UNCHANGED <<backend, touched, handles>>
    /\ calls' = Append(calls, m)
    /\ UNCHANGED <<imports, metaVars, textVars, poppler, capabilities,
                   caller, methodsArg, methods_used, report, exitCode, prev>>

Text == RunMethod(TEXT)

Visual == RunMethod(VISUAL)

Structure == RunMethod(STRUCTURE)

Metadata == RunMethod(METADATA)

\* lines 519-532
Summarize ==
    /\ pc = "summarize"
    /\ report' = [kind |-> "report", error |-> "", summary |-> Summary(results)]
    /\ pc' = "returned"
    /\ UNCHANGED <<imports, metaVars, handles, textVars, poppler, capabilities,
                   caller, methodsArg, backend, methods_used, results, calls,
                   touched, exitCode, prev>>

\* main, lines 913-930: print, optional report files, exit code.  Writing a
\* report file (--html, --json) can raise; main then returns nothing.
MainFinish ==
    /\ pc = "returned"
    /\ caller = "main"
    /\ \E written \in BOOLEAN :
          IF written
          THEN /\ exitCode' = ExitCode(report)
               /\ pc' = "exit"
          ELSE /\ pc' = "main_raised"
               /\ UNCHANGED exitCode
    /\ UNCHANGED <<imports, metaVars, handles, textVars, poppler, capabilities,
                   caller, methodsArg, backend, methods_used, results, report,
                   calls, touched, prev>>

Next ==
    \/ Construct
    \/ MainParseArgs
    \/ DirectCall
    \/ CheckFiles
    \/ BasicInfo
    \/ Text
    \/ Visual
    \/ Structure
    \/ Metadata
    \/ Summarize
    \/ MainFinish

Spec == Init /\ [][Next]_vars

(***************************************************************************)
(* compare_text on bounded documents                                       *)
(***************************************************************************)
Chars == {"A", "B", LF}

\* the page texts of n characters
RECURSIVE PageTexts(_)
PageTexts(n) ==
    IF n = 0 THEN {<<>>}
    ELSE Assigned(PageTexts(n - 1), LAMBDA shorter :
             {Append(t, c) : t \in shorter, c \in Chars})

\* the documents of p pages and n characters
RECURSIVE DocsOf(_, _)
DocsOf(p, n) ==
    IF p = 0 THEN (IF n = 0 THEN {<<>>} ELSE {})
    ELSE UNION {Assigned(DocsOf(p - 1, n - k), LAMBDA front :
                Assigned(PageTexts(k), LAMBDA last :
                    {Append(d, t) : d \in front, t \in last}))
                : k \in 0..Min2(n, MaxPageLen)}

\* the documents of at most MaxPages pages, by their number of characters
DocsBySize ==
    [n \in 0..MaxChars |-> UNION {DocsOf(p, n) : p \in 0..MaxPages}]

\* the scenario of the specification: one page, its middle line replaced
ScenarioLeft == << <<"A", LF, "B", LF, "C">> >>

ScenarioRight == << <<"A", LF, "X", LF, "C">> >>

\* two documents with two common lines, A and B, after the line X in the
\* first and before it in the second
CrossingLeft == << <<"X", LF, "A", LF, "B">> >>

CrossingRight == << <<"A", LF, "Y", LF, "B", LF, "X">> >>

\* two documents whose first lines begin with two '-' and two '+' characters
DashLeft == << <<"-", "-", LF, "A">> >>

DashRight == << <<"+", "+", LF, "B">> >>

\* the pairs of documents compared: two documents of at most MaxChars
\* characters together, a document of at most MaxChars characters and itself,
\* and the documents of the scenarios
TextInputs ==
    Assigned(DocsBySize, LAMBDA by :
        UNION {by[n[1]] \X by[n[2]] :
                   n \in {m \in (0..MaxChars) \X (0..MaxChars) : m[1] + m[2] <= MaxChars}}
        \cup UNION {{<<d, d>> : d \in by[n]} : n \in 0..MaxChars}
        \cup ({ScenarioLeft, ScenarioRight} \X {ScenarioLeft, ScenarioRight})
        \cup ({CrossingLeft, CrossingRight} \X {CrossingLeft, CrossingRight})
        \cup ({DashLeft, DashRight} \X {DashLeft, DashRight}))

InitText ==
    /\ HAS_PYMUPDF = TRUE
    /\ HAS_PDF2IMAGE = FALSE
    /\ HAS_PDFPLUMBER = FALSE
    /\ poppler = "unprobed"
    /\ capabilities = _check_capabilities(TRUE, FALSE, FALSE, "unprobed")
    /\ caller = "api"
    /\ methodsArg = [none |-> TRUE, list |-> <<>>]
    /\ pc = "text_input"
    /\ backend = NoBackend
    /\ methods_used = <<>>
    /\ results = [k \in ResultKeys |-> NoResult]
    /\ report = NoReport
    /\ calls = <<>>
    /\ touched = {}
    /\ exitCode = -1
    /\ prev = NoPrev
    /\ \E input \in TextInputs :
          /\ pages1 = input[1]
          /\ pages2 = input[2]
    /\ detailed \in BOOLEAN
    /\ text_result = NoTextResult
    /\ swapped_result = NoTextResult
    /\ handles = {}
    /\ metadata1 = NoMetadata
    /\ metadata2 = NoMetadata
    /\ hash1 = ""
    /\ hash2 = ""
    /\ meta_result = NoMetadataResult

\* compare_text(pdf1_path, pdf2_path, detailed) with the capability present
CompareText ==
    /\ pc = "text_input"
    /\ capabilities[TEXT]
    /\ text_result' = compare_text(pages1, pages2, detailed)
    /\ pc' = "text_done"
    /\ UNCHANGED <<imports, metaVars, handles, poppler, capabilities, caller, methodsArg,
                   backend,                   methods_used, results, report, calls, touched, exitCode, prev,
                   pages1, pages2, detailed, swapped_result>>

NextText == CompareText

SpecText == InitText /\ [][NextText]_vars

(***************************************************************************)
(* compare_text called a second time with the two paths exchanged          *)
(***************************************************************************)
CompareSwapped ==
    /\ pc = "text_done"
    /\ capabilities[TEXT]
    /\ swapped_result' = compare_text(pages2, pages1, detailed)
    /\ pc' = "swap_done"
    /\ UNCHANGED <<imports, metaVars, handles, poppler, capabilities, caller, methodsArg,
                   backend,                   methods_used, results, report, calls, touched, exitCode, prev,
                   pages1, pages2, detailed, text_result>>

NextSwap ==
    \/ CompareText
    \/ CompareSwapped

SpecSwap == InitText /\ [][NextSwap]_vars

(***************************************************************************)
(* compare_metadata on bounded metadata dictionaries                       *)
(***************************************************************************)
\* metadata keys of a document, the first MaxKeys of them are used
KeyNames == <<"title", "author", "subject", "keywords">>

MetaKeys == {KeyNames[i] : i \in 1..Min2(MaxKeys, Len(KeyNames))}

\* values of a metadata key: the empty string, two other strings, None
MetaValues == {Str(""), Str("a"), Str("b"), None}

\* the dictionaries over some of the keys
Dicts == UNION {[held -> MetaValues] : held \in SUBSET MetaKeys}

\* what _calculate_hash can return for a file
Digests == {"d1", "d2"}

InitMeta ==
    /\ HAS_PYMUPDF = TRUE
    /\ HAS_PDF2IMAGE = FALSE
    /\ HAS_PDFPLUMBER = FALSE
    /\ poppler = "unprobed"
    /\ capabilities = _check_capabilities(TRUE, FALSE, FALSE, "unprobed")
    /\ caller = "api"
    /\ methodsArg = [none |-> TRUE, list |-> <<>>]
    /\ pc = "metadata_input"
    /\ backend = NoBackend
    /\ methods_used = <<>>
    /\ results = [k \in ResultKeys |-> NoResult]
    /\ report = NoReport
    /\ calls = <<>>
    /\ touched = {}
    /\ exitCode = -1
    /\ prev = NoPrev
    /\ pages1 = <<>>
    /\ pages2 = <<>>
    /\ detailed = TRUE
    /\ text_result = NoTextResult
    /\ swapped_result = NoTextResult
    /\ handles = {}
    /\ metadata1 \in Dicts
    /\ metadata2 \in Dicts
    /\ hash1 \in Digests
    /\ hash2 \in Digests
    /\ meta_result = NoMetadataResult

\* compare_metadata(pdf1_path, pdf2_path) with the capability present: the
\* dict it returns, and how the summary reads that dict
CompareMetadata ==
    /\ pc = "metadata_input"
    /\ capabilities[METADATA]
    /\ \E raises \in BOOLEAN :
       \E at \in RaisePoints(MetadataSteps, IF raises THEN "raise" ELSE "same") :
          LET returned == IF raises THEN MetadataFailed
                          ELSE compare_metadata_body(metadata1, metadata2, hash1, hash2)
              outcome == IF raises THEN "raise"
                         ELSE IF returned.identical THEN "same" ELSE "diff"
          IN  /\ meta_result' = returned
              /\ backend' = [backend EXCEPT ![METADATA] = outcome]
              /\ results' = [results EXCEPT
                                ![METADATA] = compare_metadata(TRUE, outcome).res]
              /\ handles' = LeftOpen(METADATA, HAS_PYMUPDF, at)
    /\ calls' = Append(calls, METADATA)
    /\ touched' = touched \cup {METADATA}
    /\ pc' = "metadata_done"
    /\ UNCHANGED <<imports, textVars, poppler, capabilities, caller, methodsArg,
                   methods_used, report, exitCode, prev,
                   metadata1, metadata2, hash1, hash2>>

NextMeta == CompareMetadata

SpecMeta == InitMeta /\ [][NextMeta]_vars

(***************************************************************************)
(* A second call on the same comparer and the same files, with the         *)
(* visual comparison taken out of the methods of the first call            *)
(***************************************************************************)
Without(s, x) == SelectSeq(s, LAMBDA y : y # x)

Recompare ==
    /\ pc = "returned"
    /\ caller = "api"
    /\ report.kind = "report"
    /\ ~prev.valid
    /\ InSeq(VISUAL, methods_used)
    /\ prev' = [valid |-> TRUE, methods_used |-> methods_used, results |-> results,
                summary |-> report.summary, calls |-> calls]
    /\ methodsArg' = [none |-> FALSE, list |-> Without(methods_used, VISUAL)]
    /\ report' = NoReport
    /\ pc' = "check_files"
    /\ UNCHANGED <<imports, metaVars, handles, textVars, poppler, capabilities,
                   caller, backend, methods_used, results, calls, touched, exitCode>>

NextPair ==
    \/ Next
    \/ Recompare

SpecPair == Init /\ [][NextPair]_vars

(***************************************************************************)
(* Properties of comprehensive_compare and main                            *)
(***************************************************************************)
Count(x, s) == Cardinality({i \in 1..Len(s) : s[i] = x})

Returned == pc \in {"returned", "exit", "main_raised"}

Terminal == pc \in {"exit", "main_raised"} \/ (pc = "returned" /\ caller = "api")

\* the results that did not fail and carry an 'identical' value
Collected == {k \in ResultKeys : results[k].present /\ ~results[k].error
                                  /\ results[k].hasIdentical}

FailedKeys == {k \in ResultKeys : results[k].present /\ results[k].error}

\* C1: in every report, overall_identical is true exactly when the set of
\* 'identical' values of the results that did not fail is non-empty and all true.
C1_OverallIdentical ==
    report.kind = "report" =>
        /\ report.summary.present
        /\ report.summary.overall_identical <=>
              (Collected # {} /\ \A k \in Collected : results[k].identical)

\* a report that is overall identical although one requested method failed
C1_Witness ==
    /\ report.kind = "report"
    /\ report.summary.overall_identical
    /\ FailedKeys # {}
    /\ Cardinality(Collected) >= 2

\* C2 as stated: checks_passed <= checks_total and checks_total is the length
\* of methods_used minus the number of method results that failed.
C2_Original ==
    report.kind = "report" =>
        /\ report.summary.checks_passed <= report.summary.checks_total
        /\ report.summary.checks_total = Len(methods_used) - Cardinality(FailedKeys)

\* C2 amended: checks_passed <= checks_total and checks_total is the number of
\* distinct methods in methods_used minus the number of those methods whose
\* result failed; basic_info is counted neither as a check nor as a failure.
C2_ChecksTotal ==
    report.kind = "report" =>
        /\ report.summary.checks_passed <= report.summary.checks_total
        /\ report.summary.checks_passed =
              Cardinality({k \in Collected : results[k].identical})
        /\ report.summary.checks_total =
              Cardinality({m \in Methods : InSeq(m, methods_used)})
              - Cardinality(FailedKeys \ {BASIC})

\* a report over a list naming one method twice, with a failed method, a
\* failed basic_info and a passed check
C2_Witness ==
    /\ report.kind = "report"
    /\ Len(methods_used) > Cardinality({m \in Methods : InSeq(m, methods_used)})
    /\ results[BASIC].error
    /\ report.summary.checks_total = 1
    /\ report.summary.checks_passed = 1

\* C3: visual_comparison requested with its capability missing fails, the other
\* requested methods run and give what they give without it, and
\* overall_identical is that of the call that does not request it.
C3_VisualUnavailable ==
    (prev.valid /\ ~capabilities[VISUAL] /\ pc = "returned") =>
        /\ prev.results[VISUAL] = Unavailable
        /\ report.kind = "report"
        /\ \A m \in Methods \ {VISUAL} :
              InSeq(m, prev.methods_used) =>
                 /\ Count(m, prev.calls) = 1
                 /\ prev.results[m].present
                 /\ prev.results[m] = results[m]
        /\ (\E k \in ResultKeys \ {VISUAL} :
               prev.results[k].present /\ ~prev.results[k].error)
           => prev.summary.overall_identical = report.summary.overall_identical

\* both calls returned, visual was unavailable and another method passed
C3_Witness ==
    /\ prev.valid
    /\ ~capabilities[VISUAL]
    /\ pc = "returned"
    /\ prev.results[VISUAL].error
    /\ prev.summary.overall_identical
    /\ report.summary.overall_identical

\* C4: with an explicit methods list, every report holds exactly one result
\* per listed method, each listed comparator was invoked once, and no
\* comparator outside the list other than basic_info was invoked.
C4_ExplicitMethods ==
    (report.kind = "report" /\ ~methodsArg.none) =>
        /\ methods_used = methodsArg.list
        /\ \A m \in Methods :
              IF InSeq(m, methodsArg.list)
              THEN results[m].present /\ Count(m, calls) = 1
              ELSE ~results[m].present /\ Count(m, calls) = 0
        /\ \A i \in 1..Len(calls) : calls[i] = BASIC \/ InSeq(calls[i], methodsArg.list)

\* an explicit list naming an unavailable method and a method twice
C4_Witness ==
    /\ report.kind = "report"
    /\ ~methodsArg.none
    /\ \E m \in Methods : InSeq(m, methodsArg.list) /\ ~capabilities[m] /\ results[m].error
    /\ \E m \in Methods : Count(m, methodsArg.list) = 2 /\ results[m].present

\* the empty explicit list: only basic_info runs
C4_WitnessEmpty ==
    /\ report.kind = "report"
    /\ ~methodsArg.none
    /\ methodsArg.list = <<>>
    /\ calls = <<BASIC>>

\* C5: without explicit methods the methods run are the available
\* capabilities; whenever both files exist basic_info is run and recorded.
C5_DefaultMethods ==
    /\ (Returned /\ backend.exists1 = "yes" /\ backend.exists2 = "yes") =>
          /\ report.kind = "report"
          /\ results[BASIC].present
          /\ Count(BASIC, calls) = 1
    /\ (report.kind = "report" /\ methodsArg.none) =>
          \A m \in Methods :
             /\ results[m].present <=> capabilities[m]
             /\ Count(m, calls) = (IF capabilities[m] THEN 1 ELSE 0)
             /\ InSeq(m, methods_used) <=> capabilities[m]

\* a default call where some capabilities are available and some are not
C5_Witness ==
    /\ report.kind = "report"
    /\ methodsArg.none
    /\ \E m \in Methods : capabilities[m] /\ results[m].present
    /\ \E m \in Methods : ~capabilities[m] /\ ~results[m].present
    /\ results[BASIC].present

\* C6: when an input file is missing no comparator is ever invoked, the value
\* returned is a top-level error without results or summary, and main returns 1.
C6_MissingFile ==
    (backend.exists1 = "no" \/ backend.exists2 = "no") =>
        /\ calls = <<>>
        /\ touched = {}
        /\ \A k \in ResultKeys : ~results[k].present
        /\ pc \in {"returned", "exit", "main_raised"}
        /\ report.kind = "error"
        /\ ~report.summary.present
        /\ pc = "exit" => exitCode = 1

\* main has returned for a call whose second file is missing
C6_Witness ==
    /\ backend.exists1 = "yes"
    /\ backend.exists2 = "no"
    /\ pc = "exit"
    /\ exitCode = 1

\* C7 as stated: 0 exactly when overall identical, 1 exactly on a top-level
\* error, 2 only when a result that did not fail reported identical = false.
C7_Original ==
    pc = "exit" =>
        /\ exitCode = 0 <=> (report.kind = "report" /\ report.summary.overall_identical)
        /\ exitCode = 1 <=> report.kind = "error"
        /\ exitCode = 2 =>
              \E k \in Collected : ~results[k].identical

\* C7 amended: 0 exactly when overall identical, 1 exactly on a top-level
\* error, 2 exactly when a report was returned that is not overall identical:
\* a result that did not fail reported identical = false, or no result that
\* did not fail carries an 'identical' value.
C7_ExitCode ==
    pc = "exit" =>
        /\ exitCode \in {0, 1, 2}
        /\ exitCode = 0 <=> (report.kind = "report" /\ report.summary.overall_identical)
        /\ exitCode = 1 <=> report.kind = "error"
        /\ exitCode = 2 <=>
              /\ report.kind = "report"
              /\ \/ \E k \in Collected : ~results[k].identical
                 \/ Collected = {}

\* main returned 2 although nothing was compared and found different
C7_Witness ==
    /\ pc = "exit"
    /\ exitCode = 2
    /\ Collected = {}
    /\ results[BASIC].present

\* C8: no exception leaves comprehensive_compare; it always goes on to return
\* a report with a summary or a top-level error; a comparator whose backend
\* raised has a failed result, and every selected comparator is invoked.
C8_NoEscape ==
    /\ pc # "raised"
    /\ Terminal \/ ENABLED Next
    /\ \A k \in touched : backend[k] = "raise" => results[k] = Failed
    /\ Returned =>
          \/ report.kind = "error" /\ ~report.summary.present
          \/ /\ report.kind = "report"
             /\ report.summary.present
             /\ \A m \in Methods : InSeq(m, methods_used) => Count(m, calls) = 1
             /\ \A k \in ResultKeys : Count(k, calls) = 1 => results[k].present

\* basic_info and the text backend raised, and a later comparator still ran
C8_Witness ==
    /\ report.kind = "report"
    /\ backend[BASIC] = "raise"
    /\ backend[TEXT] = "raise"
    /\ results[TEXT] = Failed
    /\ \E m \in {STRUCTURE, METADATA} : m \in touched /\ results[m] = Ok(TRUE)
    /\ report.summary.has_errors

(***************************************************************************)
(* Properties of compare_text                                              *)
(***************************************************************************)
\* C9: documents whose page texts are equal page by page compare as
\* identical, with no added or removed line, no difference entry, no diff
\* line and similarity 1.0.
C9_IdenticalDocuments ==
    (pc = "text_done" /\ pages1 = pages2) =>
        /\ text_result.computed
        /\ text_result.identical
        /\ text_result.statistics.lines_added = 0
        /\ text_result.statistics.lines_removed = 0
        /\ text_result.statistics.total_changes = 0
        /\ text_result.detailed_differences = <<>>
        /\ text_result.diff_preview = <<>>
        /\ text_result.similarity.num = text_result.similarity.den

\* two equal documents of two pages, the first one empty
C9_Witness ==
    /\ pc = "text_done"
    /\ pages1 = pages2
    /\ Len(pages1) = 2
    /\ pages1[1] = <<>>
    /\ pages1[2] # <<>>
    /\ text_result.identical
    /\ text_result.similarity.num = text_result.similarity.den

\* two equal documents without any character
C9_WitnessEmpty ==
    /\ pc = "text_done"
    /\ pages1 = <<>>
    /\ pages2 = <<>>
    /\ text_result.identical

\* the documents differ in line k of page p and in nothing else
ReplacedAt(p, k) ==
    /\ Len(pages1) = Len(pages2)
    /\ p \in 1..Len(pages1)
    /\ \A q \in 1..Len(pages1) : q # p => pages1[q] = pages2[q]
    /\ LET left == splitlines(pages1[p])
           right == splitlines(pages2[p])
       IN  /\ Len(left) = Len(right)
           /\ k \in 1..Len(left)
           /\ left[k] # right[k]
           /\ \A j \in 1..Len(left) : j # k => left[j] = right[j]
           /\ \E i \in 0..Len(pages1[p]) :
                 LET before == Slice(pages1[p], 0, i)
                     after == Slice(pages1[p], i + Len(left[k]), Len(pages1[p]))
                 IN  /\ pages1[p] = before \o left[k] \o after
                     /\ pages2[p] = before \o right[k] \o after

\* C10: when one line of a page is replaced, detailed mode reports one
\* removed entry followed by one added entry, both on the page of the line
\* and at its 1-based position in the page, and identical = false.
C10_Replacement ==
    (pc = "text_done" /\ detailed) =>
        \A p \in 1..Len(pages1) : \A k \in 1..Len(splitlines(pages1[p])) :
            ReplacedAt(p, k) =>
                LET d == text_result.detailed_differences IN
                /\ ~text_result.identical
                /\ Len(d) = 2
                /\ d[1].type = "removed"
                /\ d[1].content = splitlines(pages1[p])[k]
                /\ d[1].page = p
                /\ d[1].line_in_page = k
                /\ d[2].type = "added"
                /\ d[2].content = splitlines(pages2[p])[k]
                /\ d[2].page = p
                /\ d[2].line_in_page = k

\* what compare_text returns for pages ["A\nB\nC"] and ["A\nX\nC"]: the two
\* entries are there, on page 1 and global line 2, with line_in_page 1
C10_ScenarioObserved ==
    /\ pc = "text_done"
    /\ detailed
    /\ pages1 = ScenarioLeft
    /\ pages2 = ScenarioRight
    /\ ReplacedAt(1, 2)
    /\ LET d == text_result.detailed_differences IN
       /\ Len(d) = 2
       /\ d[1].type = "removed" /\ d[1].content = <<"B">>
       /\ d[1].page = 1 /\ d[1].line = 2 /\ d[1].line_in_page = 1
       /\ d[2].type = "added" /\ d[2].content = <<"X">>
       /\ d[2].page = 1 /\ d[2].line = 2 /\ d[2].line_in_page = 1

(***************************************************************************)
(* Page and line resolution of the diff entries                            *)
(***************************************************************************)
\* number of lines of pages 1..p, each page split on its own
RECURSIVE LinesUpTo(_, _)
LinesUpTo(pages, p) ==
    IF p <= 0 THEN 0 ELSE LinesUpTo(pages, p - 1) + Len(splitlines(pages[p]))

\* the pages of the side an entry belongs to
SideOf(e) == IF e.file = "pdf1" THEN pages1 ELSE pages2

\* C11: every diff entry of compare_text has line_in_page >= 0, and the lines
\* of pages 1 up to and including the entry's page are at least as many as
\* the entry's global line number.
C11_PageResolution ==
    pc = "text_done" =>
        \A i \in 1..Len(text_result.detailed_differences) :
            LET e == text_result.detailed_differences[i] IN
            /\ e.line_in_page >= 0
            /\ LinesUpTo(SideOf(e), e.page) >= e.line

\* an entry whose page holds fewer lines, together with the pages before it,
\* than the entry's global line number
C11_Observed ==
    /\ pc = "text_done"
    /\ pages1 = <<<<"A">>, <<"B">>>>
    /\ pages2 = <<<<"A">>>>
    /\ \E i \in 1..Len(text_result.detailed_differences) :
          LET e == text_result.detailed_differences[i] IN
          /\ e.type = "removed"
          /\ e.line = 2
          /\ e.page = 1
          /\ LinesUpTo(pages1, e.page) = 1

(***************************************************************************)
(* Exchanging the two documents                                            *)
(***************************************************************************)
Exchanged(type) == IF type = "removed" THEN "added" ELSE "removed"

\* the entries of a result as (kind, content) pairs
KindAndContent(res) ==
    {<<res.detailed_differences[i].type, res.detailed_differences[i].content>> :
        i \in 1..Len(res.detailed_differences)}

\* C12: compare_text on the two documents exchanged yields the same set of
\* entries with the kinds added and removed exchanged and the contents kept.
C12_Swap ==
    pc = "swap_done" =>
        KindAndContent(swapped_result)
            = {<<Exchanged(e[1]), e[2]>> : e \in KindAndContent(text_result)}

\* the two orders keep different lines: the empty line one way, "A" the other
C12_Observed ==
    /\ pc = "swap_done"
    /\ pages1 = <<<<>>, <<"A">>>>
    /\ pages2 = <<<<"A">>, <<LF>>>>
    /\ KindAndContent(text_result) = {<<"added", <<"A">>>>, <<"removed", <<"A">>>>}
    /\ KindAndContent(swapped_result) = {<<"added", <<>>>>, <<"removed", <<>>>>}

(***************************************************************************)
(* The basic-info comparator                                               *)
(***************************************************************************)
\* C13: with equal file sizes and equal page counts the basic-info result
\* carries identical = true; with unequal file sizes it carries
\* identical = false and no error.
C13_BasicInfo ==
    results[BASIC].present =>
        /\ backend[BASIC] = "same" =>
              results[BASIC].hasIdentical /\ results[BASIC].identical
        /\ backend[BASIC] = "diff" =>
              /\ results[BASIC].hasIdentical
              /\ ~results[BASIC].identical
              /\ ~results[BASIC].error

\* equal sizes and page counts: the nested flags say so, the result itself
\* has no 'identical' value
C13_Observed ==
    /\ results[BASIC].present
    /\ backend[BASIC] = "same"
    /\ HAS_PYMUPDF
    /\ results[BASIC].file_size_identical
    /\ results[BASIC].page_count_identical
    /\ ~results[BASIC].error
    /\ ~results[BASIC].hasIdentical

(***************************************************************************)
(* Document handles                                                        *)
(***************************************************************************)
\* C14: every document handle a comparator opened has been closed by the
\* time the comparator returns, on every exit path, including the paths
\* where a later backend call raises and the comparator returns a failed
\* result.
C14_HandlesClosed == handles = {}

\* compare_metadata failed after opening the first document: its result is
\* the failure, the first document was never closed
C14_Observed ==
    /\ results[METADATA] = Failed
    /\ backend[METADATA] = "raise"
    /\ <<METADATA, "doc1">> \in handles
    /\ <<METADATA, "doc2">> \notin handles
    /\ \A h \in handles : h[1] # STRUCTURE

(***************************************************************************)
(* Comparators called without their capability                             *)
(***************************************************************************)
\* C15: a text, visual, structure or metadata comparator called while its
\* capability flag is false returns the failed result that says the method is
\* unavailable, and performs no backend operation: it reaches no backend and
\* opens no document.
C15_Unavailable ==
    \A m \in Methods :
        (Count(m, calls) > 0 /\ ~capabilities[m]) =>
            /\ results[m] = Unavailable
            /\ m \notin touched
            /\ backend[m] = "unset"
            /\ \A h \in handles : h[1] # m

\* two unavailable comparators were called, basic_info had reached its backend
C15_Witness ==
    /\ pc = "returned"
    /\ report.kind = "report"
    /\ calls = <<BASIC, TEXT, STRUCTURE>>
    /\ ~capabilities[TEXT]
    /\ ~capabilities[STRUCTURE]
    /\ results[TEXT] = Unavailable
    /\ results[STRUCTURE] = Unavailable
    /\ touched = {BASIC}

(***************************************************************************)
(* The probe of the rendering helper                                       *)
(***************************************************************************)
\* C16: the probe of the rendering helper never raises: construction of the
\* comparer always completes, a timeout or a failure to run the helper makes
\* the visual capability false, and the visual capability is true only if
\* the rendering library was imported and the probe completed.
C16_ProbeNeverRaises ==
    /\ pc # "construct_raised"
    /\ pc = "start" => ENABLED Construct
    /\ pc # "start" =>
          /\ poppler \in {"timeout", "missing"} => ~capabilities[VISUAL]
          /\ capabilities[VISUAL] => HAS_PDF2IMAGE /\ poppler = "ok"

\* the library is there, the helper timed out, the comparer was constructed
C16_Witness ==
    /\ pc = "constructed"
    /\ HAS_PDF2IMAGE
    /\ poppler = "timeout"
    /\ ~capabilities[VISUAL]
    /\ capabilities[TEXT]

(***************************************************************************)
(* Pages of the flattened line sequence                                    *)
(***************************************************************************)
\* number of lines of the flattened text that precede the first character
\* of page p: the lines of '\n'.join(pages[:p-1]) + '\n'
PageStart(pages, p) ==
    IF p <= 1 THEN 0
    ELSE Len(splitlines(Join(SubSeq(pages, 1, p - 1)) \o <<LF>>))

\* the page that contributed global line g (1-based): the last page that
\* begins before it
OriginPage(pages, g) ==
    CHOOSE p \in 1..Len(pages) :
        /\ PageStart(pages, p) < g
        /\ \A q \in (p + 1)..Len(pages) : PageStart(pages, q) >= g

\* C17: the lines of pages 1..k, each page split on its own, are as many as
\* the lines of the flattened text before page k+1, every entry is resolved
\* to the page that contributed its line, and (last page, 0) is the answer
\* only for a line beyond the last page, never for a line of the document.
C17_Cumulative ==
    pc = "text_done" =>
        /\ \A pages \in {pages1, pages2} : \A k \in 1..(Len(pages) - 1) :
              LinesUpTo(pages, k) = PageStart(pages, k + 1)
        /\ \A i \in 1..Len(text_result.detailed_differences) :
              LET e == text_result.detailed_differences[i] IN
              /\ e.page = OriginPage(SideOf(e), e.line)
              /\ ~(e.page = Len(SideOf(e)) /\ e.line_in_page = 0)

\* an empty first page: split on its own it has no line, in the flattened
\* text it is the line before the line break that '\n'.join inserted
C17_Observed ==
    /\ pc = "text_done"
    /\ pages1 = <<<<>>, <<"A">>>>
    /\ pages2 = <<>>
    /\ text_result.statistics.line_count1 = 2
    /\ LinesUpTo(pages1, 1) = 0
    /\ PageStart(pages1, 2) = 1
    /\ LinesUpTo(pages1, 2) = 1

(***************************************************************************)
(* Size of the edit script                                                 *)
(***************************************************************************)
\* length of a longest common subsequence of a[i..] and b[j..] (1-based)
RECURSIVE LCSFrom(_, _, _, _)
LCSFrom(a, b, i, j) ==
    IF i > Len(a) \/ j > Len(b) THEN 0
    ELSE IF a[i] = b[j] THEN 1 + LCSFrom(a, b, i + 1, j + 1)
    ELSE Max2(LCSFrom(a, b, i + 1, j), LCSFrom(a, b, i, j + 1))

LCS(a, b) == LCSFrom(a, b, 1, 1)

\* the flattened line sequence of a document
FlatLines(pages) == splitlines(Join(pages))

\* C18: the edit script of compare_text is minimal: removed plus added lines
\* are len(left) + len(right) - 2 * LCS(left, right), and the script covers
\* every line of both sequences once: the left lines that are not removed
\* are as many as the right lines that are not added.
C18_Minimal ==
    pc = "text_done" =>
        LET left == FlatLines(pages1)
            right == FlatLines(pages2)
            st == text_result.statistics
        IN  /\ st.lines_removed + st.lines_added
                  = Len(left) + Len(right) - 2 * LCS(left, right)
            /\ st.lines_removed <= Len(left)
            /\ st.lines_added <= Len(right)
            /\ Len(left) - st.lines_removed = Len(right) - st.lines_added

\* the two documents share the lines A and B in this order, the script keeps
\* only the line X and removes and adds five lines instead of three
C18_Observed ==
    /\ pc = "text_done"
    /\ pages1 = CrossingLeft
    /\ pages2 = CrossingRight
    /\ LCS(FlatLines(pages1), FlatLines(pages2)) = 2
    /\ text_result.statistics.lines_removed = 2
    /\ text_result.statistics.lines_added = 3

(***************************************************************************)
(* Entries of the detailed mode                                            *)
(***************************************************************************)
\* the lines of the left sequence (1-based) that the edit script does not keep
RemovedLines(left, right) ==
    Assigned(get_opcodes(left, right), LAMBDA codes :
        {i \in 1..Len(left) :
            \E k \in 1..Len(codes) : /\ codes[k].tag \in {"replace", "delete"}
                                     /\ codes[k].i1 < i
                                     /\ i <= codes[k].i2})

\* the lines of the right sequence (1-based) that the edit script does not keep
AddedLines(left, right) ==
    Assigned(get_opcodes(left, right), LAMBDA codes :
        {j \in 1..Len(right) :
            \E k \in 1..Len(codes) : /\ codes[k].tag \in {"replace", "insert"}
                                     /\ codes[k].j1 < j
                                     /\ j <= codes[k].j2})

\* the entries of one kind are exactly one per line of the set, each with the
\* content of its line
EntriesMatch(entries, type, lines, changed) ==
    /\ \A i \in changed :
          Cardinality({k \in 1..Len(entries) :
                          entries[k].type = type /\ entries[k].line = i}) = 1
    /\ \A k \in 1..Len(entries) :
          entries[k].type = type =>
              /\ entries[k].line \in changed
              /\ entries[k].content = lines[entries[k].line]

\* C19: in detailed mode, whatever the lines contain, every left line that is
\* not kept yields exactly one removed entry, every right line that is not
\* kept yields exactly one added entry, kept lines yield none, and the
\* content of an entry is the line at the entry's global line number in the
\* flattened sequence of its side.
C19_Entries ==
    (pc = "text_done" /\ detailed) =>
        LET left == FlatLines(pages1)
            right == FlatLines(pages2)
        IN  /\ EntriesMatch(text_result.detailed_differences, "removed", left,
                            RemovedLines(left, right))
            /\ EntriesMatch(text_result.detailed_differences, "added", right,
                            AddedLines(left, right))

\* the removed line '--' and the added line '++' have no entry, and the
\* entries of the lines after them carry the line numbers of '--' and '++'
C19_Observed ==
    /\ pc = "text_done"
    /\ detailed
    /\ pages1 = DashLeft
    /\ pages2 = DashRight
    /\ RemovedLines(FlatLines(pages1), FlatLines(pages2)) = {1, 2}
    /\ AddedLines(FlatLines(pages1), FlatLines(pages2)) = {1, 2}
    /\ Len(text_result.detailed_differences) = 2
    /\ text_result.detailed_differences[1].type = "removed"
    /\ text_result.detailed_differences[1].content = <<"A">>
    /\ text_result.detailed_differences[1].line = 1
    /\ text_result.detailed_differences[2].type = "added"
    /\ text_result.detailed_differences[2].content = <<"B">>
    /\ text_result.detailed_differences[2].line = 1

(***************************************************************************)
(* Page count mismatch in the visual comparison                            *)
(***************************************************************************)
\* the results other than the visual one that did not fail and carry an
\* 'identical' value
CollectedButVisual == Collected \ {VISUAL}

\* C20: when the documents have different page counts and the visual
\* capability is available, compare_visual returns a failed result with the
\* page count mismatch message, not the generic failure message, and the
\* summary treats it as failed: has_errors is true and the result is left
\* out of checks_total, of checks_passed and of the values overall_identical
\* is computed from.
C20_PageCountMismatch ==
    (results[VISUAL].present /\ backend[VISUAL] = "mismatch") =>
        /\ capabilities[VISUAL]
        /\ results[VISUAL].error
        /\ results[VISUAL].message = "page_count_mismatch"
        /\ (Returned /\ report.kind = "report") =>
              /\ report.summary.has_errors
              /\ report.summary.checks_total = Cardinality(CollectedButVisual)
              /\ report.summary.checks_passed
                    = Cardinality({k \in CollectedButVisual : results[k].identical})
              /\ report.summary.overall_identical
                    = (/\ CollectedButVisual # {}
                       /\ \A k \in CollectedButVisual : results[k].identical)

\* the page counts differ, the text comparison found the texts identical: the
\* report is overall identical and has errors
C20_Witness ==
    /\ pc = "returned"
    /\ report.kind = "report"
    /\ backend[VISUAL] = "mismatch"
    /\ results[VISUAL] = PageMismatch
    /\ results[TEXT] = Ok(TRUE)
    /\ report.summary.overall_identical
    /\ report.summary.has_errors
    /\ report.summary.checks_total = 1

(***************************************************************************)
(* The verdict of compare_text and its count of changed lines              *)
(***************************************************************************)
\* C22 as stated: for every result of compare_text that is not an error,
\* identical is true if and only if statistics.total_changes is 0, also for
\* texts that differ only in trailing or line-ending characters.
C22_Original ==
    pc = "text_done" =>
        (text_result.identical <=> text_result.statistics.total_changes = 0)

\* C22 as amended: a result of compare_text with identical true reports no
\* changed line: total_changes, lines_added and lines_removed are 0, there is
\* no entry and no line in the preview.  The converse is not claimed: it
\* fails for texts that differ only in trailing or line-ending characters.
C22_IdenticalHasNoChanges ==
    (pc = "text_done" /\ text_result.identical) =>
        /\ text_result.statistics.total_changes = 0
        /\ text_result.statistics.lines_added = 0
        /\ text_result.statistics.lines_removed = 0
        /\ text_result.detailed_differences = <<>>
        /\ text_result.diff_preview = <<>>

\* two documents cut into pages differently whose joined texts are equal and
\* hold more than one line
C22_Observed ==
    /\ pc = "text_done"
    /\ pages1 # pages2
    /\ text_result.identical
    /\ text_result.statistics.line_count1 > 1
    /\ text_result.statistics.total_changes = 0

(***************************************************************************)
(* The verdict of compare_metadata                                         *)
(***************************************************************************)
\* the two documents disagree on a key: both hold it with different values,
\* or one holds it with a value that is not the empty string
Disagree(key) ==
    CASE key \in DOMAIN metadata1 /\ key \in DOMAIN metadata2 ->
            metadata1[key] # metadata2[key]
      [] key \in DOMAIN metadata1 -> metadata1[key] # Str("")
      [] key \in DOMAIN metadata2 -> metadata2[key] # Str("")
      [] OTHER -> FALSE

\* C21: a result of compare_metadata that is not an error has identical true
\* if and only if the two dictionaries agree on every key either of them
\* holds, an absent key counting as the empty string; it flags every such key
\* on its own, and it reports whether the two file hashes are equal without
\* the hashes having a part in identical.
C21_Metadata ==
    (pc = "metadata_done" /\ meta_result.computed) =>
        LET all_keys == DOMAIN metadata1 \cup DOMAIN metadata2 IN
        /\ meta_result.identical <=> (\A key \in all_keys : ~Disagree(key))
        /\ DOMAIN meta_result.metadata = all_keys
        /\ \A key \in all_keys :
              meta_result.metadata[key].identical <=> ~Disagree(key)
        /\ meta_result.file_hash.identical <=> (hash1 = hash2)
        /\ results[METADATA] = Ok(meta_result.identical)

\* two files with different hashes, a key that only the first dictionary
\* holds, with the empty string: the key is flagged identical and so is the
\* result
C21_Observed ==
    /\ pc = "metadata_done"
    /\ meta_result.computed
    /\ hash1 # hash2
    /\ ~meta_result.file_hash.identical
    /\ \E key \in DOMAIN metadata1 \ DOMAIN metadata2 :
          meta_result.metadata[key].identical
    /\ DOMAIN metadata2 # {}
    /\ meta_result.identical

====
